---- MODULE Spec2Model ----
(***************************************************************************)
(* nswrap: the Wrap builder (src/src/lib.rs) and the child bootstrap       *)
(* engine WrapInner (src/src/core.rs).                                     *)
(*                                                                         *)
(* The parent configures a Wrap, spawns a child with clone(2) and waits.   *)
(* The child runs WrapInner::run_child: apply_nsenter, apply_unshare,      *)
(* set_id_map, set_up_tmpfs_cwd, execute_callbacks, execute_process.       *)
(* Every OS call the child makes is recorded, in order, in `log`; an OS    *)
(* call may fail, and the code's unwrap() then panics.                     *)
(***************************************************************************)
EXTENDS Integers, Sequences, FiniteSets, TLC

(***************************************************************************)
(* Bounds and input sets                                                   *)
(***************************************************************************)
\* Total number of items (namespaces, id map entries, callbacks) a builder
\* may accumulate.
MaxItems == 3

\* Largest exit code and largest signal number among the wait statuses read.
MaxCode == 40

MaxSignal == 31

\* config::NamespaceType, in the order run_child applies the kinds.
KindOrder == <<"User", "Mount", "Cgroup", "Uts", "Ipc", "Pid", "Network">>

NamespaceType == {KindOrder[i] : i \in 1..Len(KindOrder)}

\* The kinds and descriptors the caller passes to unshare / nsenter.
KindInputs == {"User", "Mount"}

FdInputs == {114}

\* util::get_uid() / util::get_gid() of the launching process.
HostUid == 1000

HostGid == 100

\* Option<T>: None is <<>>, Some(x) is <<x>>.
None == <<>>

Some(x) == <<x>>

\* config::IdMap values the caller passes to uid_map / gid_map.
IdMap(host_id, container_id, size) ==
    [host_id |-> host_id, container_id |-> container_id, size |-> size]

UidMapInputs == {IdMap(HostUid, 0, 1), IdMap(HostUid, HostUid, 1)}

GidMapInputs == {IdMap(HostGid, 0, 1)}

\* Paths are sequences of components; an absolute path starts with "/".
BinSh == <<"/", "bin", "sh">>

TmpPath == <<"/", "tmp">>

\* What exists on the host before the child starts.
HostPaths == {<<"/">>, <<"/", "bin">>, BinSh, TmpPath}

\* Callables the caller queues: one returning a constant, and the probe of
\* the tests (16 when the path exists, 32 when it does not).
CallbackInputs ==
    {[kind |-> "ret", val |-> 16, path |-> <<>>],
     [kind |-> "probe", val |-> 0, path |-> BinSh]}

\* config::Process values the caller passes to set_process.
NoBin == <<>>

\* config::EnvVarItem
EnvSet(val) == [tag |-> "Set", val |-> val]

EnvClean == [tag |-> "Clean", val |-> ""]

DefaultProcess ==
    [bin |-> NoBin, args |-> <<>>, env |-> <<>>, env_no_inheriting |-> FALSE]

ProcessInputs ==
    {[DefaultProcess EXCEPT !.bin = BinSh, !.args = <<"-c", "exit 25">>]}

\* The environment of the launching process, as (key, value) pairs.
ParentEnv == {<<"PATH", "/bin">>, <<"HOME", "/root">>}

\* Process specs with environment operations, with and without the
\* env_no_inheriting flag.
EnvInputs ==
    {<<>>,
     << <<"FOO", EnvSet("bar")>> >>,
     << <<"HOME", EnvClean>> >>,
     << <<"HOME", EnvSet("/")>>, <<"FOO", EnvSet("bar")>> >>,
     << <<"FOO", EnvSet("bar")>>, <<"PATH", EnvClean>> >>}

EnvProcessInputs ==
    {[DefaultProcess EXCEPT !.bin = BinSh, !.env = e, !.env_no_inheriting = b] :
        e \in EnvInputs, b \in BOOLEAN}

VARIABLES
    \* Wrap (parent side)
    process, namespaces, uid_maps, gid_maps, callbacks, sandbox_mnt,
    pc,         \* "config" | "panicked" | "spawned" | "spawn_failed" | "waited"
                \*   | "status_made" | "coded"
    \* the child
    inner,      \* the WrapInner moved into the child
    queued,     \* the callable queue as it was at launch
    cpc,        \* the child's position in run_child
    log,        \* the OS calls and callables the child has made, in order
    fs,         \* the child's mount / root / cwd state
    files,      \* /proc/<pid>/{uid_map,setgroups,gid_map} as written
    ret,        \* run_child's `ret`
    outcome,    \* how the child ended
    mem,        \* the clone flags, and a memory cell as parent and child see it
    waited      \* what Child::wait returned

vars == <<process, namespaces, uid_maps, gid_maps, callbacks, sandbox_mnt, pc,
          inner, queued, cpc, log, fs, files, ret, outcome, mem, waited>>

wrapVars == <<process, namespaces, uid_maps, gid_maps, callbacks, sandbox_mnt>>

childVars == <<inner, queued, cpc, log, fs, files, ret, outcome, mem>>

(***************************************************************************)
(* The builder                                                             *)
(***************************************************************************)
Items == Len(namespaces) + Len(uid_maps) + Len(gid_maps) + Len(callbacks)

Namespace(typ, fd) == [typ |-> typ, fd |-> fd]

\* Wrap::add_namespace: a directive with a descriptor panics when the last
\* directive has none; otherwise the directive is pushed at the back.
add_namespace_Unchecked(q, ns) ==
    [panic |-> FALSE, namespaces |-> Append(q, ns)]

add_namespace_PushFirst(q, ns) ==
    [panic |-> ns.fd # None /\ q # <<>> /\ q[Len(q)].fd = None,
     namespaces |-> Append(q, ns)]

add_namespace(q, ns) ==
    IF ns.fd # None /\ q # <<>> /\ q[Len(q)].fd = None
    THEN [panic |-> TRUE, namespaces |-> q]
    ELSE [panic |-> FALSE, namespaces |-> Append(q, ns)]

AddNamespace(ns) ==
    LET r == add_namespace(namespaces, ns) IN
    /\ pc = "config"
    /\ r.panic \/ Items < MaxItems
    /\ namespaces' = r.namespaces
    /\ pc' = IF r.panic THEN "panicked" ELSE "config"
    /\ UNCHANGED <<process, uid_maps, gid_maps, callbacks, sandbox_mnt>>
    /\ UNCHANGED <<childVars, waited>>

Unshare(kinds) == \E typ \in kinds : AddNamespace(Namespace(typ, None))

Nsenter(kinds, fds) ==
    \E typ \in kinds, pidfd \in fds : AddNamespace(Namespace(typ, Some(pidfd)))

Callback ==
    \E cb \in CallbackInputs :
        /\ pc = "config"
        /\ Items < MaxItems
        /\ callbacks' = Append(callbacks, cb)
        /\ UNCHANGED <<process, namespaces, uid_maps, gid_maps, sandbox_mnt, pc>>
        /\ UNCHANGED <<childVars, waited>>

UidMap ==
    \E m \in UidMapInputs :
        /\ pc = "config"
        /\ Items < MaxItems
        /\ uid_maps' = Append(uid_maps, m)
        /\ UNCHANGED <<process, namespaces, gid_maps, callbacks, sandbox_mnt, pc>>
        /\ UNCHANGED <<childVars, waited>>

GidMap ==
    \E m \in GidMapInputs :
        /\ pc = "config"
        /\ Items < MaxItems
        /\ gid_maps' = Append(gid_maps, m)
        /\ UNCHANGED <<process, namespaces, uid_maps, callbacks, sandbox_mnt, pc>>
        /\ UNCHANGED <<childVars, waited>>

\* Wrap::id_map_preset: Root maps the caller to 0, Current to itself.
IdMapPreset ==
    \E set \in {"Root", "Current"} :
        LET cid(host) == IF set = "Root" THEN 0 ELSE host IN
        /\ pc = "config"
        /\ Items + 2 <= MaxItems
        /\ uid_maps' = Append(uid_maps, IdMap(HostUid, cid(HostUid), 1))
        /\ gid_maps' = Append(gid_maps, IdMap(HostGid, cid(HostGid), 1))
        /\ UNCHANGED <<process, namespaces, callbacks, sandbox_mnt, pc>>
        /\ UNCHANGED <<childVars, waited>>

SandboxMnt ==
    \E opt \in BOOLEAN :
        /\ pc = "config"
        /\ sandbox_mnt' = opt
        /\ UNCHANGED <<process, namespaces, uid_maps, gid_maps, callbacks, pc>>
        /\ UNCHANGED <<childVars, waited>>

set_process(procs) ==
    \E proc \in procs :
        /\ pc = "config"
        /\ process' = Some(proc)
        /\ UNCHANGED <<namespaces, uid_maps, gid_maps, callbacks, sandbox_mnt, pc>>
        /\ UNCHANGED <<childVars, waited>>

SetProcess == set_process(ProcessInputs)

(***************************************************************************)
(* Launch: Wrap::spawn builds the WrapInner and hands it to clone(2)       *)
(***************************************************************************)
\* config::NamespaceItem
NsNone == [tag |-> "None", fd |-> None]

NsUnshare == [tag |-> "Unshare", fd |-> None]

NsEnter(fd) == [tag |-> "Enter", fd |-> Some(fd)]

MaxOf(S) == CHOOSE x \in S : \A y \in S : y <= x

\* config::NamespaceSet for one phase: the directives of the sequence that
\* carry a descriptor (join = TRUE) or carry none (join = FALSE), one per
\* kind, the last one registered for a kind standing.
NamespaceSetOf(q, join) ==
    [k \in NamespaceType |->
        LET idx == {i \in 1..Len(q) : q[i].typ = k /\ (q[i].fd # None) = join} IN
        IF idx = {} THEN NsNone
        ELSE IF join THEN NsEnter(q[MaxOf(idx)].fd[1]) ELSE NsUnshare]

\* The WrapInner that spawn moves into the child.
ToInner ==
    [process |-> IF process = None THEN DefaultProcess ELSE process[1],
     uid_maps |-> uid_maps,
     gid_maps |-> gid_maps,
     callbacks |-> callbacks,
     namespace_nsenter |-> NamespaceSetOf(namespaces, TRUE),
     namespace_unshare |-> NamespaceSetOf(namespaces, FALSE),
     sandbox_mnt |-> sandbox_mnt]

NoInner ==
    [process |-> DefaultProcess, uid_maps |-> <<>>, gid_maps |-> <<>>,
     callbacks |-> <<>>,
     namespace_nsenter |-> [k \in NamespaceType |-> NsNone],
     namespace_unshare |-> [k \in NamespaceType |-> NsNone],
     sandbox_mnt |-> FALSE]

\* The steps of run_child, in the order the code calls them.
RunChildSteps_CallbacksFirst ==
    <<"execute_callbacks", "apply_nsenter", "apply_unshare", "set_id_map",
      "set_up_tmpfs_cwd", "execute_process">>

RunChildSteps_SandboxFirst ==
    <<"apply_nsenter", "apply_unshare", "set_up_tmpfs_cwd", "set_id_map",
      "execute_callbacks", "execute_process">>

RunChildSteps ==
    <<"apply_nsenter", "apply_unshare", "set_id_map", "set_up_tmpfs_cwd",
      "execute_callbacks", "execute_process">>

StepIndex(s) == CHOOSE i \in 1..Len(RunChildSteps) : RunChildSteps[i] = s

StepAfter_Halts(s) == "halted"

StepAfter(s) ==
    IF StepIndex(s) = Len(RunChildSteps) THEN "done"
    ELSE RunChildSteps[StepIndex(s) + 1]

HostFs ==
    [root |-> <<"/">>, cwd |-> <<"/">>, propagation |-> {"SHARED"},
     tmpfs_at |-> None, dirs |-> {}, binds |-> {}, put_old |-> None]

NoFiles == [uid_map |-> None, setgroups |-> None, gid_map |-> None]

Running == [kind |-> "running", code |-> 0]

\* No clone made yet: one memory cell, holding 0, in the parent.
NoMem == [flags |-> {}, parent |-> 0, child |-> 0]

\* The flags spawn_inner passes to clone(2).
CloneFlags_VM == {"VM"}

CloneFlags_empty == {}

\* clone(2): the child starts with the parent's memory contents.
clone_memory(flags, m) == [flags |-> flags, parent |-> m.parent, child |-> m.parent]

\* A write by a callable: it lands in the child's memory, and in the parent's
\* only when clone was told to share the address space.
callable_write(m, v) ==
    IF "VM" \in m.flags THEN [m EXCEPT !.parent = v, !.child = v]
    ELSE [m EXCEPT !.child = v]

NotWaited ==
    [called |-> FALSE, ok |-> FALSE, status |-> [kind |-> "None", code |-> 0],
     code |-> None]

\* spawn_inner's result for the caller of spawn: Ok(Child) when clone(2)
\* returned a pid, clone's Err otherwise.
spawn_inner_Unchecked(clone_ok) == "spawned"

spawn_inner_AlwaysErr(clone_ok) == "spawn_failed"

spawn_inner(clone_ok) == IF clone_ok THEN "spawned" ELSE "spawn_failed"

\* Wrap::spawn / spawn_inner: clone(2) either fails, and no child exists, or
\* returns the pid of a child that starts run_child on the moved WrapInner.
Spawn ==
    /\ pc = "config"
    /\ \E clone_ok \in BOOLEAN :
        /\ pc' = spawn_inner(clone_ok)
        /\ callbacks' = <<>>
        /\ UNCHANGED <<process, namespaces, uid_maps, gid_maps, sandbox_mnt>>
        /\ IF clone_ok
           THEN /\ inner' = ToInner
                /\ queued' = callbacks
                /\ cpc' = RunChildSteps[1]
                /\ mem' = clone_memory(CloneFlags_empty, mem)
                /\ UNCHANGED <<log, fs, files, ret, outcome, waited>>
           ELSE UNCHANGED <<childVars, waited>>

Init ==
    /\ process = None
    /\ namespaces = <<>>
    /\ uid_maps = <<>>
    /\ gid_maps = <<>>
    /\ callbacks = <<>>
    /\ sandbox_mnt = FALSE
    /\ pc = "config"
    /\ inner = NoInner
    /\ queued = <<>>
    /\ cpc = "none"
    /\ log = <<>>
    /\ fs = HostFs
    /\ files = NoFiles
    /\ ret = 0
    /\ outcome = Running
    /\ mem = NoMem
    /\ waited = NotWaited

(***************************************************************************)
(* The child: WrapInner::run_child                                         *)
(***************************************************************************)
Call(op, args) == [op |-> op, args |-> args]

\* apply_namespace_item: the OS call one directive makes, if any.
apply_namespace_item_UnshareOnEnter(ns, flag) ==
    CASE ns.tag = "None" -> <<>>
      [] ns.tag = "Unshare" -> <<Call("unshare", <<flag>>)>>
      [] ns.tag = "Enter" -> <<Call("unshare", <<flag>>)>>

apply_namespace_item(ns, flag) ==
    CASE ns.tag = "None" -> <<>>
      [] ns.tag = "Unshare" -> <<Call("unshare", <<flag>>)>>
      [] ns.tag = "Enter" -> <<Call("setns", <<ns.fd[1], flag>>)>>

\* The (field, flag) pairs of apply_nsenter and of apply_unshare, in the
\* order of the code's lines.
ApplyNsenterPlan ==
    << <<"User", "NEWUSER">>, <<"Mount", "NEWNS">>, <<"Cgroup", "NEWCGROUP">>,
       <<"Uts", "NEWUTS">>, <<"Ipc", "NEWIPC">>, <<"Pid", "NEWPID">>,
       <<"Network", "NEWNET">> >>

ApplyUnsharePlan_MountFirst ==
    << <<"Mount", "NEWNS">>, <<"User", "NEWUSER">>, <<"Cgroup", "NEWCGROUP">>,
       <<"Uts", "NEWUTS">>, <<"Ipc", "NEWIPC">>, <<"Pid", "NEWPID">>,
       <<"Network", "NEWNET">> >>

ApplyUnsharePlan ==
    << <<"User", "NEWUSER">>, <<"Mount", "NEWNS">>, <<"Cgroup", "NEWCGROUP">>,
       <<"Uts", "NEWUTS">>, <<"Ipc", "NEWIPC">>, <<"Pid", "NEWPID">>,
       <<"Network", "NEWNET">> >>

RECURSIVE NamespaceCalls(_, _, _)
NamespaceCalls(set, plan, i) ==
    IF i > Len(plan) THEN <<>>
    ELSE apply_namespace_item(set[plan[i][1]], plan[i][2])
         \o NamespaceCalls(set, plan, i + 1)

\* Result::unwrap over a run of OS calls of which the k-th fails (k = 0: none
\* does): the calls up to the failing one are made, and the failure panics.
unwrap_Ignored(calls, k) ==
    [made |-> [i \in 1..Len(calls) |->
                  [op |-> calls[i].op, args |-> calls[i].args, ok |-> i # k]],
     panic |-> FALSE]

unwrap(calls, k) ==
    [made |-> [i \in 1..(IF k = 0 THEN Len(calls) ELSE k) |->
                  [op |-> calls[i].op, args |-> calls[i].args, ok |-> i # k]],
     panic |-> k # 0]

Panicked == [kind |-> "panicked", code |-> 0]

\* One step of run_child that makes `calls` and changes only the log.
CallsStep(step, calls) ==
    /\ cpc = step
    /\ \E k \in 0..Len(calls) :
        LET r == unwrap(calls, k) IN
        /\ log' = log \o r.made
        /\ cpc' = IF r.panic THEN "done" ELSE StepAfter(step)
        /\ outcome' = IF r.panic THEN Panicked ELSE outcome
    /\ UNCHANGED <<inner, queued, fs, files, ret, mem>>
    /\ UNCHANGED <<wrapVars, pc, waited>>

ApplyNsenter ==
    CallsStep("apply_nsenter",
              NamespaceCalls(inner.namespace_nsenter, ApplyNsenterPlan, 1))

ApplyUnshare ==
    CallsStep("apply_unshare",
              NamespaceCalls(inner.namespace_unshare, ApplyUnsharePlan, 1))

\* write_id_map's content: one line "<container_id> <host_id> <size>\n" per
\* entry, in the order of the table.
IdMapContent(map) ==
    [i \in 1..Len(map) |-> <<map[i].container_id, map[i].host_id, map[i].size>>]

\* The writes of set_id_map, in the order of the code's lines.
SetIdMapPlan_GidFirst(w) ==
    <<Call("write", <<"gid_map", IdMapContent(w.uid_maps)>>),
      Call("write", <<"uid_map", IdMapContent(w.uid_maps)>>),
      Call("write", <<"setgroups", "deny">>)>>

SetIdMapPlan_DenyFirst(w) ==
    <<Call("write", <<"setgroups", "deny">>),
      Call("write", <<"uid_map", IdMapContent(w.uid_maps)>>),
      Call("write", <<"gid_map", IdMapContent(w.uid_maps)>>)>>

SetIdMapPlan(w) ==
    <<Call("write", <<"uid_map", IdMapContent(w.uid_maps)>>),
      Call("write", <<"setgroups", "deny">>),
      Call("write", <<"gid_map", IdMapContent(w.uid_maps)>>)>>

\* The files after the successful writes among `made`.
RECURSIVE Written(_, _, _)
Written(f, made, i) ==
    IF i > Len(made) THEN f
    ELSE Written(IF made[i].ok
                 THEN [f EXCEPT ![made[i].args[1]] = Some(made[i].args[2])]
                 ELSE f,
                 made, i + 1)

\* run_child's test for calling set_id_map.
has_id_map_UidOnly(w) == Len(w.uid_maps) > 0

has_id_map(w) == Len(w.uid_maps) + Len(w.gid_maps) > 0

SetIdMap ==
    /\ cpc = "set_id_map"
    /\ IF has_id_map(inner)
       THEN \E k \in 0..Len(SetIdMapPlan(inner)) :
               LET r == unwrap(SetIdMapPlan(inner), k) IN
               /\ log' = log \o r.made
               /\ files' = Written(files, r.made, 1)
               /\ cpc' = IF r.panic THEN "done" ELSE StepAfter("set_id_map")
               /\ outcome' = IF r.panic THEN Panicked ELSE outcome
       ELSE /\ cpc' = StepAfter("set_id_map")
            /\ UNCHANGED <<log, files, outcome>>
    /\ UNCHANGED <<inner, queued, fs, ret, mem>>
    /\ UNCHANGED <<wrapVars, pc, waited>>

(***************************************************************************)
(* The child's filesystem view                                             *)
(***************************************************************************)
IsPrefix(a, b) == Len(a) <= Len(b) /\ SubSeq(b, 1, Len(a)) = a

Drop(p, n) == SubSeq(p, n + 1, Len(p))

\* A path as the process names it, made absolute against its cwd.
Resolve(f, p) == IF p # <<>> /\ p[1] = "/" THEN p ELSE f.cwd \o p

\* The same place named from the host's root: below put_old lies the old
\* root, everything else lies below the directory that is now the root.
ToHost(f, vp) ==
    IF f.put_old # None /\ IsPrefix(f.put_old[1], vp)
    THEN <<"/">> \o Drop(vp, Len(f.put_old[1]))
    ELSE f.root \o Tail(vp)

\* Whether the process sees something at absolute path vp.
Exists(f, vp) ==
    LET hp == ToHost(f, vp) IN
    IF f.tmpfs_at # None /\ IsPrefix(f.tmpfs_at[1], hp)
    THEN LET rel == Drop(hp, Len(f.tmpfs_at[1])) IN rel = <<>> \/ rel \in f.dirs
    ELSE hp \in HostPaths

Parent(vp) == SubSeq(vp, 1, Len(vp) - 1)

IsMountPoint(f, hp) == f.tmpfs_at = Some(hp) \/ hp \in f.binds

\* Whether the kernel can carry out the call in this state (it may still
\* fail for a reason of its own, such as a missing privilege).
FsCan(f, c) ==
    CASE c.op = "change_mount" -> Exists(f, Resolve(f, c.args[1]))
      [] c.op = "mount" /\ c.args[3] = "tmpfs" -> Exists(f, Resolve(f, c.args[2]))
      [] c.op = "mount" /\ c.args[3] # "tmpfs" ->
            /\ Exists(f, Resolve(f, c.args[1]))
            /\ Exists(f, Resolve(f, c.args[2]))
      [] c.op = "set_current_dir" -> Exists(f, Resolve(f, c.args[1]))
      [] c.op = "mkdir" ->
            /\ Exists(f, Parent(Resolve(f, c.args[1])))
            /\ ~Exists(f, Resolve(f, c.args[1]))
            /\ f.tmpfs_at # None
            /\ IsPrefix(f.tmpfs_at[1], ToHost(f, Resolve(f, c.args[1])))
      [] c.op = "pivot_root" ->
            /\ Exists(f, Resolve(f, c.args[1]))
            /\ IsMountPoint(f, ToHost(f, Resolve(f, c.args[1])))
            /\ Exists(f, Resolve(f, c.args[2]))
            /\ IsPrefix(Resolve(f, c.args[1]), Resolve(f, c.args[2]))

\* The state after the call has succeeded.
FsApply(f, c) ==
    CASE c.op = "change_mount" -> [f EXCEPT !.propagation = c.args[2]]
      [] c.op = "mount" /\ c.args[3] = "tmpfs" ->
            [f EXCEPT !.tmpfs_at = Some(ToHost(f, Resolve(f, c.args[2]))),
                      !.dirs = {}]
      [] c.op = "mount" /\ c.args[3] # "tmpfs" ->
            [f EXCEPT !.binds = @ \cup {ToHost(f, Resolve(f, c.args[2]))}]
      [] c.op = "set_current_dir" -> [f EXCEPT !.cwd = Resolve(f, c.args[1])]
      [] c.op = "mkdir" ->
            [f EXCEPT !.dirs = @ \cup
                {Drop(ToHost(f, Resolve(f, c.args[1])), Len(f.tmpfs_at[1]))}]
      [] c.op = "pivot_root" ->
            [f EXCEPT !.root = ToHost(f, Resolve(f, c.args[1])),
                      !.put_old = Some(<<"/">> \o Drop(Resolve(f, c.args[2]),
                                                Len(Resolve(f, c.args[1])))),
                      !.cwd = <<"/">>]

\* The calls of a plan, made one after the other, until one fails: the k-th
\* (k = 0: none fails of its own), or the first the kernel cannot carry out.
RECURSIVE FsRun(_, _, _, _)
FsRun(f, plan, i, k) ==
    IF i > Len(plan) THEN [fs |-> f, n |-> Len(plan), panic |-> FALSE]
    ELSE IF i = k \/ ~FsCan(f, plan[i]) THEN [fs |-> f, n |-> i, panic |-> TRUE]
    ELSE CHOOSE r \in {FsRun(g, plan, i + 1, k) : g \in {FsApply(f, plan[i])}} :
            TRUE

\* The calls of set_up_tmpfs_cwd, in the order of the code's lines.
SetUpTmpfsCwdPlan_NoPivot ==
    <<Call("change_mount", <<<<"/">>, {"SLAVE", "REC"}>>),
      Call("mount", <<<<"tmpfs">>, TmpPath, "tmpfs", {"NODEV", "NOSUID"}, "">>),
      Call("set_current_dir", <<TmpPath>>),
      Call("mkdir", <<TmpPath \o <<"newroot">>, "0755">>),
      Call("mkdir", <<<<"oldroot">>, "0755">>),
      Call("mount", <<<<"newroot">>, <<"newroot">>, "",
                      {"SILENT", "BIND", "REC"}, "">>)>>

SetUpTmpfsCwdPlan_MountFirst ==
    <<Call("mount", <<<<"tmpfs">>, TmpPath, "tmpfs", {"NODEV", "NOSUID"}, "">>),
      Call("change_mount", <<<<"/">>, {"SLAVE", "REC"}>>),
      Call("set_current_dir", <<TmpPath>>),
      Call("mkdir", <<TmpPath \o <<"newroot">>, "0755">>),
      Call("mkdir", <<<<"oldroot">>, "0755">>),
      Call("mount", <<<<"newroot">>, <<"newroot">>, "",
                      {"SILENT", "BIND", "REC"}, "">>),
      Call("pivot_root", <<TmpPath, <<"oldroot">>>>)>>

SetUpTmpfsCwdPlan_PivotNewroot ==
    <<Call("change_mount", <<<<"/">>, {"SLAVE", "REC"}>>),
      Call("mount", <<<<"tmpfs">>, TmpPath, "tmpfs", {"NODEV", "NOSUID"}, "">>),
      Call("set_current_dir", <<TmpPath>>),
      Call("mkdir", <<TmpPath \o <<"newroot">>, "0755">>),
      Call("mkdir", <<<<"oldroot">>, "0755">>),
      Call("mount", <<<<"newroot">>, <<"newroot">>, "",
                      {"SILENT", "BIND", "REC"}, "">>),
      Call("pivot_root", <<<<"newroot">>, <<"oldroot">>>>)>>

SetUpTmpfsCwdPlan ==
    <<Call("change_mount", <<<<"/">>, {"SLAVE", "REC"}>>),
      Call("mount", <<<<"tmpfs">>, TmpPath, "tmpfs", {"NODEV", "NOSUID"}, "">>),
      Call("set_current_dir", <<TmpPath>>),
      Call("mkdir", <<TmpPath \o <<"newroot">>, "0755">>),
      Call("mkdir", <<<<"oldroot">>, "0755">>),
      Call("mount", <<<<"newroot">>, <<"newroot">>, "",
                      {"SILENT", "BIND", "REC"}, "">>),
      Call("pivot_root", <<TmpPath, <<"oldroot">>>>)>>

SetUpTmpfsCwd ==
    /\ cpc = "set_up_tmpfs_cwd"
    /\ IF inner.sandbox_mnt
       THEN \E k \in 0..Len(SetUpTmpfsCwdPlan) :
               \E r \in {FsRun(fs, SetUpTmpfsCwdPlan, 1, k)} :
               /\ fs' = r.fs
               /\ log' = log \o [i \in 1..r.n |->
                                   [op |-> SetUpTmpfsCwdPlan[i].op,
                                    args |-> SetUpTmpfsCwdPlan[i].args,
                                    ok |-> ~(r.panic /\ i = r.n)]]
               /\ cpc' = IF r.panic THEN "done" ELSE StepAfter("set_up_tmpfs_cwd")
               /\ outcome' = IF r.panic THEN Panicked ELSE outcome
       ELSE /\ cpc' = StepAfter("set_up_tmpfs_cwd")
            /\ UNCHANGED <<fs, log, outcome>>
    /\ UNCHANGED <<inner, queued, files, ret, mem>>
    /\ UNCHANGED <<wrapVars, pc, waited>>

(***************************************************************************)
(* Callables, exec, and the parent's wait                                  *)
(***************************************************************************)
\* What a callable returns when it is invoked in filesystem state f.
Invoke(cb, f) ==
    IF cb.kind = "ret" THEN cb.val
    ELSE IF Exists(f, Resolve(f, cb.path)) THEN 16 ELSE 32

\* execute_callbacks: `ret` starts at r and every callable popped from the
\* front of the queue overwrites it.
execute_callbacks_KeepFirst(q, f, r) ==
    IF q = <<>> THEN r ELSE Invoke(Head(q), f)

RECURSIVE execute_callbacks(_, _, _)
execute_callbacks(q, f, r) ==
    IF q = <<>> THEN r
    ELSE execute_callbacks(Tail(q), f, Invoke(Head(q), f))

\* The places in a queue of n callables that the loop's n pop_front calls
\* take them from, in the order of the loop.
pop_order_Back(n) == [i \in 1..n |-> n + 1 - i]

pop_order(n) == [i \in 1..n |-> i]

ExecuteCallbacks ==
    /\ cpc = "execute_callbacks"
    /\ ret' = execute_callbacks(inner.callbacks, fs, 0)
    /\ log' = log \o [i \in 1..Len(inner.callbacks) |->
                        LET at == pop_order(Len(inner.callbacks))[i] IN
                        [op |-> "call",
                         args |-> <<at, Invoke(inner.callbacks[at], fs)>>,
                         ok |-> TRUE]]
    /\ inner' = [inner EXCEPT !.callbacks = <<>>]
    /\ mem' = IF inner.callbacks = <<>> THEN mem
              ELSE callable_write(mem, mem.child + Len(inner.callbacks))
    /\ cpc' = StepAfter("execute_callbacks")
    /\ UNCHANGED <<queued, fs, files, outcome>>
    /\ UNCHANGED <<wrapVars, pc, waited>>

\* The exit code of the program named by the process spec.
ProgramExit(proc) == IF proc.args = <<"-c", "exit 25">> THEN 25 ELSE 0

\* The end of run_child: a successful exec replaces the process image; when
\* exec is not attempted, or returns an error, run_child returns `ret`.
exec_result_NeverReplaces(exec_ok, r, proc) == [kind |-> "returned", code |-> r]

exec_result(exec_ok, r, proc) ==
    IF exec_ok THEN [kind |-> "execed", code |-> ProgramExit(proc)]
    ELSE [kind |-> "returned", code |-> r]

\* The environment the command starts from. The env_no_inheriting branch is
\* empty in the code (its env_clear call is commented out), so the command
\* starts from the inherited environment in both cases.
command_new_env(proc, inherited) ==
    IF proc.env_no_inheriting THEN inherited ELSE inherited

\* cmd.env(key, val) / cmd.env_remove(key)
env_item(env, key, item) ==
    IF item.tag = "Set"
    THEN {p \in env : p[1] # key} \cup {<<key, item.val>>}
    ELSE {p \in env : p[1] # key}

\* The loop over process.env, from entry i on.
RECURSIVE set_up_envvar(_, _, _)
set_up_envvar(env, ops, i) ==
    IF i > Len(ops) THEN env
    ELSE set_up_envvar(env_item(env, ops[i][1], ops[i][2]), ops, i + 1)

\* The environment execute_process hands to exec.
command_env(proc) ==
    set_up_envvar(command_new_env(proc, ParentEnv), proc.env, 1)

ExecuteProcess ==
    /\ cpc = "execute_process"
    /\ IF inner.process.bin # NoBin
       THEN \E exec_ok \in
                 (IF Exists(fs, Resolve(fs, inner.process.bin))
                  THEN BOOLEAN ELSE {FALSE}) :
               /\ log' = Append(log, [op |-> "exec",
                                      args |-> <<inner.process.bin,
                                                 inner.process.args,
                                                 command_env(inner.process)>>,
                                      ok |-> exec_ok])
               /\ outcome' = exec_result(exec_ok, ret, inner.process)
       ELSE /\ outcome' = exec_result(FALSE, ret, inner.process)
            /\ UNCHANGED log
    /\ cpc' = "done"
    /\ UNCHANGED <<inner, queued, fs, files, ret, mem>>
    /\ UNCHANGED <<wrapVars, pc, waited>>

\* The raw wait status of a child that ended as `o`.
WaitStatuses(o) ==
    CASE o.kind = "returned" -> {[kind |-> "Exited", code |-> o.code % 256]}
      [] o.kind = "execed" -> {[kind |-> "Exited", code |-> o.code % 256]}
      [] o.kind = "panicked" -> {[kind |-> "Signaled", code |-> 6],
                                 [kind |-> "Exited", code |-> 101]}

\* ExitStatus::code
code_AlwaysSome(status) == Some(status.code)

code(status) == IF status.kind = "Exited" THEN Some(status.code) ELSE None

\* Child::wait: blocks until the child has ended; waitpid's error is
\* returned as Err.
Wait ==
    /\ pc = "spawned"
    /\ cpc = "done"
    /\ \E wait_ok \in BOOLEAN, st \in WaitStatuses(outcome) :
        waited' = IF wait_ok
                  THEN [NotWaited EXCEPT !.called = TRUE, !.ok = TRUE,
                                         !.status = st]
                  ELSE [NotWaited EXCEPT !.called = TRUE]
    /\ pc' = "waited"
    /\ UNCHANGED <<wrapVars, childVars>>

\* The raw wait statuses ExitStatus::new may be given: Exited(code),
\* Signaled(signal), Stopped(signal), Continued.
WaitStatusInputs ==
    {[kind |-> "Exited", code |-> c] : c \in 0..MaxCode}
    \cup {[kind |-> k, code |-> sig] : k \in {"Signaled", "Stopped"},
                                       sig \in 1..MaxSignal}
    \cup {[kind |-> "Continued", code |-> 0]}

\* ExitStatus::new, called by the user of the library on a status of its own.
ExitStatusNew ==
    /\ pc = "config"
    /\ \E st \in WaitStatusInputs :
          waited' = [NotWaited EXCEPT !.ok = TRUE, !.status = st]
    /\ pc' = "status_made"
    /\ UNCHANGED <<wrapVars, childVars>>

\* The caller asks the ExitStatus it holds for its code.
Code ==
    /\ pc \in {"waited", "status_made"}
    /\ waited.ok
    /\ waited' = [waited EXCEPT !.code = code(waited.status)]
    /\ pc' = "coded"
    /\ UNCHANGED <<wrapVars, childVars>>

(***************************************************************************)
(* The system                                                              *)
(***************************************************************************)
Next ==
    \/ Unshare(KindInputs)
    \/ Nsenter(KindInputs, FdInputs)
    \/ Callback
    \/ UidMap
    \/ GidMap
    \/ IdMapPreset
    \/ SandboxMnt
    \/ SetProcess
    \/ Spawn
    \/ ApplyNsenter
    \/ ApplyUnshare
    \/ SetIdMap
    \/ SetUpTmpfsCwd
    \/ ExecuteCallbacks
    \/ ExecuteProcess
    \/ Wait

Spec == Init /\ [][Next]_vars

\* run_child runs on without waiting for anything but the calls it makes,
\* which return, and the parent that holds a Child calls wait on it, which
\* returns once the child has ended.
RunChild ==
    \/ ApplyNsenter
    \/ ApplyUnshare
    \/ SetIdMap
    \/ SetUpTmpfsCwd
    \/ ExecuteCallbacks
    \/ ExecuteProcess

SpecLive == Init /\ [][Next]_vars /\ WF_vars(RunChild) /\ WF_vars(Wait)

\* The launch of a configuration of Create directives, the wait for it, and
\* the reading of exit statuses.
NextStatus ==
    \/ Unshare(KindInputs)
    \/ Spawn
    \/ ApplyNsenter
    \/ ApplyUnshare
    \/ SetIdMap
    \/ SetUpTmpfsCwd
    \/ ExecuteCallbacks
    \/ ExecuteProcess
    \/ Wait
    \/ ExitStatusNew
    \/ Code

SpecStatus == Init /\ [][NextStatus]_vars

\* The launch of configurations of directives of all seven kinds.
NextKinds ==
    \/ Unshare(NamespaceType)
    \/ Nsenter(NamespaceType, FdInputs)
    \/ Spawn
    \/ ApplyNsenter
    \/ ApplyUnshare
    \/ SetIdMap
    \/ SetUpTmpfsCwd
    \/ ExecuteCallbacks
    \/ ExecuteProcess
    \/ Wait

SpecKinds == Init /\ [][NextKinds]_vars

\* The launch of programs whose process spec carries environment operations.
NextEnv ==
    \/ set_process(EnvProcessInputs)
    \/ SandboxMnt
    \/ Spawn
    \/ ApplyNsenter
    \/ ApplyUnshare
    \/ SetIdMap
    \/ SetUpTmpfsCwd
    \/ ExecuteCallbacks
    \/ ExecuteProcess
    \/ Wait

SpecEnv == Init /\ [][NextEnv]_vars

(***************************************************************************)
(* Properties                                                              *)
(***************************************************************************)
IsJoin(ns) == ns.fd # None

\* No directive without a descriptor is followed by one with a descriptor.
JoinsFormPrefix(q) ==
    \A i, j \in 1..Len(q) : (i < j /\ IsJoin(q[j])) => IsJoin(q[i])

\* C1: in every state of the builder, every Join directive of the namespace
\* sequence precedes every Create directive, and a step that appends a Join
\* happens only when the sequence was empty or ended in a Join.
C1_JoinsPrecedeCreates ==
    [][/\ JoinsFormPrefix(namespaces')
       /\ (Len(namespaces') = Len(namespaces) + 1
             /\ IsJoin(namespaces'[Len(namespaces')]))
            => (namespaces = <<>> \/ IsJoin(namespaces[Len(namespaces)]))]_vars

C1_Witness ==
    /\ Len(namespaces) = 3
    /\ IsJoin(namespaces[1])
    /\ IsJoin(namespaces[2])
    /\ ~IsJoin(namespaces[3])

\* C2: the builder call that breaks the ordering rule panics in the builder
\* itself, before any child exists, and leaves the namespace sequence as it
\* was; a child is only ever launched by a builder that has not panicked,
\* from a sequence in which no Join follows a Create.
C2_RejectedAtConfigTime ==
    [][/\ pc' = "panicked" =>
            /\ pc = "config"
            /\ cpc = "none" /\ cpc' = "none"
            /\ namespaces' = namespaces
            /\ namespaces # <<>> /\ ~IsJoin(namespaces[Len(namespaces)])
       /\ (pc = "config" /\ namespaces # <<>> /\ Len(namespaces') > Len(namespaces)
             /\ ~IsJoin(namespaces[Len(namespaces)]))
            => ~IsJoin(namespaces'[Len(namespaces')])
       /\ cpc' # "none" => (pc' # "panicked" /\ JoinsFormPrefix(namespaces'))]_vars

C2_Witness ==
    /\ pc = "panicked"
    /\ Len(namespaces) = 2
    /\ IsJoin(namespaces[1])
    /\ ~IsJoin(namespaces[2])

\* The results the callables returned, in the order they were invoked.
CallEntries == SelectSeq(log, LAMBDA e : e.op = "call")

\* C3: when no executable is named and run_child returns, the value it
\* returns is the one the last invoked callable returned, whatever the
\* earlier ones returned, and 0 when the queue was empty.
C3_ExitCodeIsLastCallable ==
    (outcome.kind = "returned" /\ inner.process.bin = NoBin) =>
        /\ Len(CallEntries) = Len(queued)
        /\ outcome.code = IF queued = <<>> THEN 0
                          ELSE CallEntries[Len(CallEntries)].args[2]

C3_Witness ==
    /\ outcome.kind = "returned"
    /\ inner.process.bin = NoBin
    /\ Len(queued) = 2
    /\ Len(CallEntries) = 2
    /\ CallEntries[1].args[2] # CallEntries[2].args[2]
    /\ outcome.code = CallEntries[2].args[2]

\* The positions of the log at which file `name` is written (an attempt
\* counts, whether or not it succeeded).
WritesOf(name) ==
    {i \in 1..Len(log) : log[i].op = "write" /\ log[i].args[1] = name}

DenyWrites ==
    {i \in WritesOf("setgroups") : log[i].args[2] = "deny"}

Before(S, T) == \A i \in S, j \in T : i < j

IdMapsConfigured == Len(inner.uid_maps) + Len(inner.gid_maps) > 0

\* C4 as claimed: the write of `deny` to setgroups comes first, then the
\* write of uid_map, then the write of gid_map.
C4_DenyThenUidThenGid ==
    /\ Before(DenyWrites, WritesOf("uid_map"))
    /\ Before(WritesOf("uid_map"), WritesOf("gid_map"))
    /\ Before(DenyWrites, WritesOf("gid_map"))

\* C4 as amended: set_id_map writes uid_map first, then `deny` to
\* setgroups, then gid_map; each file is written after the writes before it
\* succeeded, and at most once.
C4_UidThenDenyThenGid ==
    /\ Before(WritesOf("uid_map"), DenyWrites)
    /\ Before(DenyWrites, WritesOf("gid_map"))
    /\ Before(WritesOf("uid_map"), WritesOf("gid_map"))
    /\ WritesOf("setgroups") = DenyWrites
    /\ \A name \in {"uid_map", "setgroups", "gid_map"} :
          Cardinality(WritesOf(name)) <= 1
    /\ DenyWrites # {} =>
          \E i \in WritesOf("uid_map") : log[i].ok
    /\ WritesOf("gid_map") # {} =>
          \E i \in DenyWrites : log[i].ok

C4_Witness ==
    /\ files.uid_map # None
    /\ files.setgroups = Some("deny")
    /\ files.gid_map # None
    /\ \E i \in WritesOf("gid_map") : log[i].ok

\* C5: gid_map is written, or its write attempted, only after `deny` has
\* been written successfully to setgroups; and a run with at least one id
\* map entry that gets past identity mapping has written both.
C5_DenyBeforeGidMap ==
    /\ \A j \in WritesOf("gid_map") : \E i \in DenyWrites : i < j /\ log[i].ok
    /\ files.gid_map # None => files.setgroups = Some("deny")
    /\ (IdMapsConfigured /\ outcome.kind # "panicked"
          /\ cpc \notin {"none", "apply_nsenter", "apply_unshare", "set_id_map"})
         => (files.setgroups = Some("deny") /\ files.gid_map # None)

C5_Witness ==
    /\ IdMapsConfigured
    /\ files.setgroups = Some("deny")
    /\ files.gid_map # None
    /\ cpc = "done"

\* The step of run_child an entry of the log belongs to.
PhaseOf(e) ==
    CASE e.op = "setns" -> 1
      [] e.op = "unshare" -> 2
      [] e.op = "write" -> 3
      [] e.op \in {"change_mount", "mount", "set_current_dir", "mkdir",
                   "pivot_root"} -> 4
      [] e.op = "call" -> 5
      [] e.op = "exec" -> 6

OkBefore(j, ops) == {i \in 1..(j - 1) : log[i].op \in ops /\ log[i].ok}

Tagged(set, tag) == {k \in NamespaceType : set[k].tag = tag}

\* Everything the configuration asks for before the callables has been done
\* successfully before position j of the log.
SetupDoneBefore(j) ==
    /\ Cardinality(OkBefore(j, {"setns"}))
         = Cardinality(Tagged(inner.namespace_nsenter, "Enter"))
    /\ Cardinality(OkBefore(j, {"unshare"}))
         = Cardinality(Tagged(inner.namespace_unshare, "Unshare"))
    /\ IdMapsConfigured => Cardinality(OkBefore(j, {"write"})) = 3
    /\ inner.sandbox_mnt => Cardinality(OkBefore(j, {"pivot_root"})) = 1

\* C6: the child's calls are made step by step in the order joins, creates,
\* identity mapping, sandbox root, callables, exec; a callable is invoked
\* only when all the setup the configuration asks for has succeeded, and
\* exec is attempted only when every queued callable has been invoked.
C6_BootstrapOrder ==
    /\ \A i \in 1..(Len(log) - 1) : PhaseOf(log[i]) <= PhaseOf(log[i + 1])
    /\ \A j \in 1..Len(log) :
          /\ log[j].op \in {"call", "exec"} => SetupDoneBefore(j)
          /\ log[j].op = "exec" =>
                Cardinality(OkBefore(j, {"call"})) = Len(queued)
    /\ cpc = "execute_process" =>
          (inner.callbacks = <<>> /\ Len(CallEntries) = Len(queued))

HasOp(op) == \E i \in 1..Len(log) : log[i].op = op

C6_Witness ==
    /\ cpc = "done"
    /\ HasOp("unshare")
    /\ HasOp("write")
    /\ HasOp("pivot_root")
    /\ HasOp("call")
    /\ HasOp("exec")

\* C7 as claimed: when exec is attempted and fails, the child ends in
\* failure and run_child does not return the callables' result.
C7_ExecFailureIsFatal ==
    (cpc = "done" /\ \E j \in 1..Len(log) : log[j].op = "exec" /\ ~log[j].ok)
        => outcome.kind = "panicked"

\* C8: a failed namespace call, id map write or sandbox call is the last
\* thing the child does: it panics there, no callable has been invoked, no
\* exec attempted, `ret` is untouched, and what wait reports for it is not
\* a callable's return value.
C8_SetupFailureIsFatal ==
    \A j \in 1..Len(log) :
        (~log[j].ok /\ PhaseOf(log[j]) <= 4) =>
            /\ j = Len(log)
            /\ cpc = "done"
            /\ outcome = Panicked
            /\ CallEntries = <<>>
            /\ ret = 0
            /\ inner.callbacks = queued
            /\ waited.ok => waited.status \in WaitStatuses(Panicked)

C8_Witness ==
    /\ outcome = Panicked
    /\ queued # <<>>
    /\ inner.process.bin # NoBin
    /\ ~log[Len(log)].ok
    /\ log[Len(log)].op = "unshare"
    /\ waited.ok

\* The sandbox root builder has run to its end.
SandboxBuilt == \E i \in 1..Len(log) : log[i].op = "pivot_root" /\ log[i].ok

\* Host paths that do not lie at or below a directory the builder created
\* in the tmpfs root.
HostOnlyPaths ==
    {p \in HostPaths : Len(p) > 1 /\ \A d \in fs.dirs : ~IsPrefix(<<"/">> \o d, p)}

\* C9: once the sandbox root builder has run, no host path is visible to the
\* child unless it lies below a directory the builder created in the tmpfs
\* root; a callable that probes /bin/sh in a sandboxed child finds it absent
\* (returns 32, not 16).
C9_HostPathsAbsentInSandbox ==
    /\ SandboxBuilt =>
          /\ HostOnlyPaths = HostPaths \ {<<"/">>}
          /\ \A p \in HostOnlyPaths : ~Exists(fs, p)
    /\ inner.sandbox_mnt =>
          \A i \in 1..Len(CallEntries) :
              queued[CallEntries[i].args[1]].kind = "probe"
                  => CallEntries[i].args[2] = 32
    /\ ~inner.sandbox_mnt => \A p \in HostPaths : Exists(fs, p)

C9_Witness ==
    /\ SandboxBuilt
    /\ ~Exists(fs, BinSh)
    /\ \E i \in 1..Len(CallEntries) :
          /\ queued[CallEntries[i].args[1]].kind = "probe"
          /\ CallEntries[i].args[2] = 32

\* C10: when exec of the named program succeeds, run_child does not return:
\* the child ends as the executed program, and the code wait reports is the
\* program's (25 for /bin/sh -c 'exit 25'), whatever the callables returned.
C10_ExecExitCode ==
    (cpc = "done" /\ \E j \in 1..Len(log) : log[j].op = "exec" /\ log[j].ok) =>
        /\ inner.process.bin # NoBin
        /\ outcome.kind = "execed"
        /\ inner.process.args = <<"-c", "exit 25">> =>
              /\ outcome.code = 25
              /\ waited.ok => code(waited.status) = Some(25)

C10_Witness ==
    /\ \E j \in 1..Len(log) : log[j].op = "exec" /\ log[j].ok
    /\ Len(CallEntries) = 2
    /\ ret = 16
    /\ waited.ok
    /\ code(waited.status) = Some(25)

\* C11: when clone fails, spawn returns the error: no Child handle exists,
\* no child exists and no bootstrap step ever runs for that configuration;
\* a Child handle exists only with a child, and a launch starts exactly one
\* run of run_child, at its first step and with nothing yet executed.
C11_CloneFailureIsReturned ==
    /\ pc = "spawn_failed" =>
          /\ cpc = "none"
          /\ inner = NoInner
          /\ log = <<>>
          /\ fs = HostFs
          /\ files = NoFiles
          /\ outcome = Running
          /\ waited = NotWaited
    /\ pc \in {"spawned", "waited"} => cpc # "none"
    /\ pc = "config" => cpc = "none" /\ log = <<>>
    /\ Len(SelectSeq(log, LAMBDA e : e.op = "call")) <= Len(queued)

C11_Witness ==
    /\ pc = "spawn_failed"
    /\ namespaces # <<>>
    /\ uid_maps # <<>>
    /\ sandbox_mnt
    /\ process # None

\* C12: once clone has succeeded the spawn result is Ok(Child) and stays so
\* through every child step: a child whose bootstrap step failed leaves the
\* parent holding a Child handle, and the failure reaches the parent only as
\* the status a successful wait returns (abnormal end, never a normal exit
\* with a callable's or a program's code).
C12_SpawnOkDespiteChildFailure ==
    /\ cpc # "none" => pc \in {"spawned", "waited"}
    /\ outcome = Panicked =>
          /\ pc \in {"spawned", "waited"}
          /\ pc = "spawned" => waited = NotWaited
          /\ (pc = "waited" /\ waited.ok) =>
                waited.status \in {[kind |-> "Signaled", code |-> 6],
                                   [kind |-> "Exited", code |-> 101]}
          /\ (pc = "waited" /\ ~waited.ok) => waited.status = NotWaited.status

C12_Witness ==
    /\ outcome = Panicked
    /\ pc = "waited"
    /\ waited.ok
    /\ waited.status.kind = "Signaled"
    /\ \E i \in 1..Len(log) : log[i].op = "write" /\ ~log[i].ok

\* C13: clone is called with the empty flag set, so it neither shares memory
\* nor creates a namespace (the only namespaces created are those the
\* unshare step creates for a Create directive); the writes the callables
\* make land in the child's memory and the parent's memory stays as it was,
\* and after the launch the builder no longer holds the queue it moved.
C13_ParentMemoryUntouched ==
    /\ mem.flags = {}
    /\ mem.parent = NoMem.parent
    /\ mem.child = NoMem.child + Len(CallEntries)
    /\ pc \in {"spawned", "waited"} => callbacks = <<>>
    /\ \A i \in 1..Len(log) :
          log[i].op = "unshare" =>
              \E k \in NamespaceType : inner.namespace_unshare[k].tag = "Unshare"

C13_Witness ==
    /\ pc = "waited"
    /\ Len(CallEntries) = 2
    /\ mem.child = 2
    /\ mem.parent = 0
    /\ queued # <<>>

\* C14: wait returns Ok with the status the OS reported when waitpid
\* succeeds and an error carrying no status when waitpid fails; code() of an
\* exit status is Some(code) exactly for Exited(code) and None for Signaled,
\* Stopped and Continued.
C14_WaitAndCode ==
    /\ (waited.called /\ waited.ok) => waited.status \in WaitStatuses(outcome)
    /\ (waited.called /\ ~waited.ok) => waited = [NotWaited EXCEPT !.called = TRUE]
    /\ waited.called => cpc = "done"
    /\ pc = "coded" =>
          /\ waited.status.kind = "Exited" => waited.code = Some(waited.status.code)
          /\ waited.status.kind \in {"Signaled", "Stopped", "Continued"}
                => waited.code = None
          /\ waited.status.kind \in {"Exited", "Signaled", "Stopped", "Continued"}

C14_Witness ==
    /\ pc = "coded"
    /\ waited.status.kind = "Stopped"
    /\ waited.code = None

\* The environment of the program started by a successful exec.
ExecEnvs == {log[j].args[3] : j \in {i \in 1..Len(log) : log[i].op = "exec" /\ log[i].ok}}

\* The (key, value) pairs the process spec's Set operations establish.
SetPairs(proc) ==
    {<<proc.env[i][1], proc.env[i][2].val>> :
        i \in {n \in 1..Len(proc.env) : proc.env[n][2].tag = "Set"}}

\* C15: when env_no_inheriting is set, the environment of the executed
\* program holds only variables established by the spec's Set operations,
\* none inherited from the launching process; in every case a Set key is
\* defined with its value and a Clean key is absent.
C15_StartsFromEmptyEnvironment ==
    \A env \in ExecEnvs :
        /\ inner.process.env_no_inheriting => env \subseteq SetPairs(inner.process)
        /\ \A i \in 1..Len(inner.process.env) :
              LET key == inner.process.env[i][1]
                  item == inner.process.env[i][2] IN
              IF item.tag = "Set" THEN <<key, item.val>> \in env
              ELSE \A p \in env : p[1] # key

\* The flag that belongs to each namespace kind.
KindFlag ==
    [k \in NamespaceType |->
        CASE k = "User" -> "NEWUSER" [] k = "Mount" -> "NEWNS"
          [] k = "Cgroup" -> "NEWCGROUP" [] k = "Uts" -> "NEWUTS"
          [] k = "Ipc" -> "NEWIPC" [] k = "Pid" -> "NEWPID"
          [] k = "Network" -> "NEWNET"]

\* The place of the kind a namespace call is about, in the order User,
\* Mount, Cgroup, Uts, Ipc, Pid, Network.
KindIndexOf(e) ==
    CHOOSE i \in 1..Len(KindOrder) : KindFlag[KindOrder[i]] = e.args[Len(e.args)]

CallsOf(op) == SelectSeq(log, LAMBDA e : e.op = op)

InKindOrder(calls) ==
    \A i \in 1..(Len(calls) - 1) : KindIndexOf(calls[i]) < KindIndexOf(calls[i + 1])

Count(op, args) ==
    Cardinality({i \in 1..Len(log) : log[i].op = op /\ log[i].args = args})

\* Both namespace steps are over and no namespace call has failed.
NamespacesApplied ==
    /\ cpc \notin {"none", "apply_nsenter", "apply_unshare"}
    /\ \A i \in 1..Len(log) : log[i].op \in {"setns", "unshare"} => log[i].ok

\* C17: once both namespace steps are over, a None directive has caused no
\* call, a Create directive of a kind exactly one unshare call with the
\* kind's flag, and a Join directive exactly one setns call with its handle
\* and the kind's flag; no other unshare or setns call is made.
C17_OnePrimitivePerDirective ==
    /\ NamespacesApplied =>
          /\ \A k \in NamespaceType :
                /\ Count("unshare", <<KindFlag[k]>>) =
                      (IF inner.namespace_unshare[k].tag = "Unshare" THEN 1 ELSE 0)
                /\ \A fd \in FdInputs :
                      Count("setns", <<fd, KindFlag[k]>>) =
                         (IF inner.namespace_nsenter[k] = NsEnter(fd) THEN 1 ELSE 0)
          /\ Len(CallsOf("unshare")) =
                Cardinality({k \in NamespaceType :
                                inner.namespace_unshare[k].tag = "Unshare"})
          /\ Len(CallsOf("setns")) =
                Cardinality({k \in NamespaceType :
                                inner.namespace_nsenter[k].tag = "Enter"})
    /\ \A k \in NamespaceType :
          /\ Count("unshare", <<KindFlag[k]>>) <= 1
          /\ \A fd \in FdInputs : Count("setns", <<fd, KindFlag[k]>>) <= 1

C17_Witness ==
    /\ NamespacesApplied
    /\ inner.namespace_nsenter["Cgroup"] = NsEnter(114)
    /\ inner.namespace_unshare["Pid"] = NsUnshare
    /\ inner.namespace_unshare["Ipc"] = NsNone
    /\ Count("setns", <<114, "NEWCGROUP">>) = 1
    /\ Count("unshare", <<"NEWPID">>) = 1
    /\ Count("unshare", <<"NEWIPC">>) = 0
    /\ Len(log) = 2

\* The identity mapping step is over and no call up to its end has failed.
IdMapStepOver ==
    /\ cpc \notin {"none", "apply_nsenter", "apply_unshare", "set_id_map"}
    /\ \A i \in 1..Len(log) :
          log[i].op \in {"setns", "unshare", "write"} => log[i].ok

\* C18: with both tables empty no write to uid_map, setgroups or gid_map is
\* ever made; with at least one entry in the two tables together, a run
\* that gets past identity mapping has written each of the three files
\* exactly once; no file is written twice in any run.
C18_IdentityMapperOnce ==
    /\ (cpc # "none" /\ Len(inner.uid_maps) = 0 /\ Len(inner.gid_maps) = 0) =>
          /\ \A i \in 1..Len(log) : log[i].op # "write"
          /\ files = NoFiles
    /\ (IdMapStepOver /\ Len(inner.uid_maps) + Len(inner.gid_maps) >= 1) =>
          \A name \in {"uid_map", "setgroups", "gid_map"} :
              /\ Cardinality(WritesOf(name)) = 1
              /\ files[name] # None
    /\ \A name \in {"uid_map", "setgroups", "gid_map"} :
          Cardinality(WritesOf(name)) <= 1
    /\ cpc = "none" => files = NoFiles

C18_Witness ==
    /\ IdMapStepOver
    /\ inner.uid_maps = <<>>
    /\ Len(inner.gid_maps) = 1
    /\ Cardinality(WritesOf("uid_map")) = 1
    /\ Cardinality(WritesOf("setgroups")) = 1
    /\ Cardinality(WritesOf("gid_map")) = 1
    /\ cpc = "done"

\* C19: the content written to uid_map is one line <container_id> <host_id>
\* <size> per entry of the uid table, in table order, and the content written
\* to gid_map is one such line per entry of the gid table, in table order.
C19_EachFileReceivesItsTable ==
    /\ \A i \in WritesOf("uid_map") :
          /\ Len(log[i].args[2]) = Len(inner.uid_maps)
          /\ \A n \in 1..Len(inner.uid_maps) :
                log[i].args[2][n] = <<inner.uid_maps[n].container_id,
                                      inner.uid_maps[n].host_id,
                                      inner.uid_maps[n].size>>
    /\ \A i \in WritesOf("gid_map") :
          /\ Len(log[i].args[2]) = Len(inner.gid_maps)
          /\ \A n \in 1..Len(inner.gid_maps) :
                log[i].args[2][n] = <<inner.gid_maps[n].container_id,
                                      inner.gid_maps[n].host_id,
                                      inner.gid_maps[n].size>>

\* C20: the callables step invokes the queued callables in the order they
\* were added, each exactly once, and leaves the queue empty, whether or not
\* a program is configured; before the step nothing has been invoked and the
\* queue is as it was at launch.
C20_QueueDrainedInFifoOrder ==
    /\ cpc \in {"execute_process", "done"} /\ outcome # Panicked =>
          /\ Len(CallEntries) = Len(queued)
          /\ \A i \in 1..Len(queued) :
                /\ CallEntries[i].args[1] = i
                /\ queued[i].kind = "ret" => CallEntries[i].args[2] = queued[i].val
          /\ inner.callbacks = <<>>
    /\ cpc \notin {"execute_process", "done"} \/ outcome = Panicked =>
          /\ CallEntries = <<>>
          /\ cpc # "none" => inner.callbacks = queued
    /\ \A i, j \in 1..Len(CallEntries) :
          CallEntries[i].args[1] = CallEntries[j].args[1] => i = j

C20_Witness ==
    /\ Len(queued) = 3
    /\ queued[1].kind = "probe"
    /\ queued[2].kind = "ret"
    /\ queued[3].kind = "probe"
    /\ inner.process.bin = NoBin
    /\ Len(CallEntries) = 3
    /\ CallEntries[2].args = <<2, 16>>
    /\ inner.callbacks = <<>>
    /\ cpc = "done"

\* The calls of the sandbox root builder the child has made, in order.
SandboxCalls == SelectSeq(log, LAMBDA e : PhaseOf(e) = 4)

\* The primitives of the builder's operations, in the claimed order: the
\* propagation change, the tmpfs mount, the change of directory, the two
\* directory creations, the bind mount, the pivot.
SandboxOps ==
    <<"change_mount", "mount", "set_current_dir", "mkdir", "mkdir", "mount",
      "pivot_root">>

\* C21: the builder's calls are a prefix of: recursive change of the
\* propagation of / to slave, tmpfs mount at the scratch path with NODEV and
\* NOSUID, chdir to the scratch path, creation of newroot and of oldroot in
\* it, recursive bind mount of newroot onto itself, pivot_root; each call is
\* made only after all before it succeeded, and a builder that was not
\* stopped by a failure has made all of them.
C21_SandboxOperationsInOrder ==
    LET sb == SandboxCalls IN
    /\ Len(sb) <= Len(SandboxOps)
    /\ \A i \in 1..Len(sb) :
          /\ sb[i].op = SandboxOps[i]
          /\ i < Len(sb) => sb[i].ok
    /\ Len(sb) >= 1 => sb[1].args = <<<<"/">>, {"SLAVE", "REC"}>>
    /\ Len(sb) >= 2 =>
          /\ sb[2].args[2] = TmpPath
          /\ sb[2].args[3] = "tmpfs"
          /\ sb[2].args[4] = {"NODEV", "NOSUID"}
    /\ Len(sb) >= 3 => sb[3].args = <<TmpPath>>
    /\ Len(sb) >= 4 => sb[4].args[1] = TmpPath \o <<"newroot">>
    /\ Len(sb) >= 5 => sb[5].args[1] = <<"oldroot">>
    /\ Len(sb) >= 6 =>
          /\ sb[6].args[1] = <<"newroot">>
          /\ sb[6].args[2] = <<"newroot">>
          /\ {"BIND", "REC"} \subseteq sb[6].args[4]
    /\ (inner.sandbox_mnt /\ cpc \in {"execute_callbacks", "execute_process"}) =>
          (Len(sb) = Len(SandboxOps) /\ sb[Len(sb)].ok)
    /\ fs.tmpfs_at # None => fs.propagation = {"SLAVE", "REC"}

C21_Witness ==
    /\ Len(SandboxCalls) = 7
    /\ SandboxCalls[7].ok
    /\ fs.propagation = {"SLAVE", "REC"}
    /\ fs.tmpfs_at # None
    /\ fs.binds # {}
    /\ fs.put_old # None

\* The successful pivot_root calls of the log.
Pivots == {i \in 1..Len(log) : log[i].op = "pivot_root" /\ log[i].ok}

\* C22 as claimed: the new_root argument of pivot_root is the new-root
\* directory (newroot in the scratch mount) and after the pivot that
\* directory is the root of the process.
C22_PivotsToNewRootDirectory ==
    /\ \A i \in 1..Len(log) :
          log[i].op = "pivot_root" =>
              log[i].args[1] \in {<<"newroot">>, TmpPath \o <<"newroot">>}
    /\ Pivots # {} => fs.root = TmpPath \o <<"newroot">>

\* C22 as amended: the new_root argument of pivot_root is the scratch path,
\* the mount point of the tmpfs, and put_old is the oldroot directory in it;
\* after the pivot the tmpfs is the root of the process, the old root lies
\* under /oldroot, and the bind-mounted new-root directory is the
\* subdirectory /newroot of the new root.
C22_PivotsToScratchMount ==
    /\ \A i \in 1..Len(log) :
          log[i].op = "pivot_root" => log[i].args = <<TmpPath, <<"oldroot">>>>
    /\ Pivots # {} =>
          /\ fs.tmpfs_at = Some(TmpPath)
          /\ fs.root = TmpPath
          /\ fs.put_old = Some(<<"/", "oldroot">>)
          /\ fs.cwd = <<"/">>
          /\ Exists(fs, <<"/", "newroot">>)
          /\ Exists(fs, <<"/", "oldroot">>)
          /\ TmpPath \o <<"newroot">> \in fs.binds
    /\ Pivots = {} => fs.root = HostFs.root

C22_Witness ==
    /\ Pivots # {}
    /\ fs.root = TmpPath
    /\ Exists(fs, <<"/", "newroot">>)
    /\ cpc = "done"
    /\ outcome.kind = "returned"

\* The successful writes of the identity mapper before position j of the log.
IdWritesBefore(j) == {i \in 1..(j - 1) : log[i].op = "write" /\ log[i].ok}

FinalOutcomes == {"execed", "returned", "panicked"}

\* The place of a child position in the order of run_child's steps, the end
\* of the run being the last; 0 for anything that is not a step.
PositionOf(c) ==
    IF c = "done" THEN Len(RunChildSteps) + 1
    ELSE IF \E i \in 1..Len(RunChildSteps) : RunChildSteps[i] = c
         THEN StepIndex(c) ELSE 0

\* C24: a launched child reaches the end of run_child, with exactly one of
\* the three final outcomes and none before the end; every step moves the
\* child forward in the order of the steps, so no step is executed twice;
\* and the parent's wait on the child returns.
C24_BootstrapTerminates ==
    /\ [](cpc = "done" <=> outcome.kind \in FinalOutcomes)
    /\ [](cpc # "done" => outcome = Running)
    /\ [][(cpc # "none" /\ cpc' # cpc) => PositionOf(cpc') > PositionOf(cpc)]_vars
    /\ [][(cpc # "none" /\ log' # log) => cpc' # cpc]_vars
    /\ (pc = "spawned") ~> (cpc = "done")
    /\ (pc = "spawned") ~> (pc = "waited")

C24_Witness ==
    /\ pc = "waited"
    /\ cpc = "done"
    /\ outcome.kind = "execed"
    /\ waited.ok
    /\ HasOp("unshare")
    /\ HasOp("write")
    /\ HasOp("call")

====
